---- MODULE Spec2Model ----
(***************************************************************************)
(* The transcribe-on-request POST handler (updated_transcribe.py) with its *)
(* job state writer (updater.py) and metadata fetcher / event publisher    *)
(* (publisher.py), run by concurrent invocations against one search        *)
(* index, one job-status table and one work queue.                         *)
(***************************************************************************)
EXTENDS Integers, Sequences, FiniteSets, TLC

-----------------------------------------------------------------------------
(* Bounds of the model *)

MaxCalls == 2          \* call identifiers known to the model: 1..MaxCalls
MaxLen == 2            \* longest request body (list of call identifiers)
MaxIndexChanges == 1   \* writes by other systems to the search index
MaxClock == 1          \* latest reading of the clock, in seconds

CallIds == 1..MaxCalls

\* The platform runs one invocation per request; two of them, A and B, overlap.
Requests == {"A", "B"}

RECURSIVE SeqsUpTo(_)
SeqsUpTo(n) ==
    IF n = 0 THEN {<<>>}
    ELSE LET shorter == SeqsUpTo(n - 1)
         IN  shorter \cup {Append(s, c) : s \in {t \in shorter : Len(t) = n - 1}, c \in CallIds}

Bodies == SeqsUpTo(MaxLen)

Range(s) == {s[i] : i \in 1..Len(s)}

Last(s) == s[Len(s)]

\* The JSON number whose decimal text is the call identifier c, as an element
\* of a body.
Number(c) == MaxCalls + c

\* The _id a value of the terms clause selects: the index reads a number as
\* its decimal text.
es_id(x) == IF x \in CallIds THEN x ELSE x - MaxCalls

\* What extract_body may hand to handler(): a list of call-id strings, or
\* JSON of another shape. elements is what Python gives when it iterates the
\* body: the characters of a string, the keys of an object, nothing for a
\* number or null (they are not iterable).
RequestBodies ==
    {[shape |-> "list", elements |-> b] : b \in Bodies}
    \cup {[shape |-> "list_of_numbers", elements |-> <<Number(c)>>] : c \in CallIds}
    \cup {[shape |-> k, elements |-> <<c>>] : k \in {"string", "object"}, c \in CallIds}
    \cup {[shape |-> k, elements |-> <<>>] : k \in {"number", "null"}}

\* set(call_ids) and len(call_ids) raise TypeError for these shapes.
NotIterable == {"number", "null"}

-----------------------------------------------------------------------------
(* Documents of the call index, as the two queries see them *)

NoDoc == [present |-> FALSE, recent |-> FALSE, transcribed |-> FALSE,
          permitted |-> FALSE, wellformed |-> FALSE]
ValidDoc == [present |-> TRUE, recent |-> TRUE, transcribed |-> FALSE,
             permitted |-> TRUE, wellformed |-> TRUE]
TranscribedDoc == [ValidDoc EXCEPT !.transcribed = TRUE]
RestrictedDoc == [ValidDoc EXCEPT !.permitted = FALSE]
MalformedDoc == [ValidDoc EXCEPT !.wellformed = FALSE]

Docs == {NoDoc, ValidDoc, TranscribedDoc, RestrictedDoc, MalformedDoc}

VARIABLES
    index,               \* search index: call id -> document
    index_changes,       \* number of writes other systems made to the index
    table,               \* job-status table: set of TranscribeOnRequestJob items
    queue,               \* work queue: set of messages sent
    pc,                  \* position of each invocation in handler()
    call_ids,            \* handler: body / call_ids of each invocation, as iterated
    body_shape,          \* handler: the JSON shape of the body
    bound,               \* handler: local names bound so far
    trace,               \* steps each invocation has executed, in order
    failed,              \* first step of the invocation that failed, and how
    es_response,         \* validate_calls_id_es: how its search ended, and the hit ids
    raised,              \* exception that left handler(), if any
    job_id,              \* handler: job_id
    epoch,               \* updater: epoch_time and epoch_ttl of the batch
    call_metadata_es_list,  \* publisher: the dicts merged from the hits of its re-query
    call_metadata_list,  \* publisher: the validated metadata records
    response,            \* what the decorated handler returned
    es_call,             \* search client: the operation it ran last, and how it ended
    decorated,           \* lambda_handler: the last invocation of a wrapped handler
    ES_HEADERS,          \* search client module: the module-level dict of headers
    instances,           \* search client module: the ElasticSearchV2 objects constructed
    bucket,              \* feedback handler: the objects of the bucket, by key
    feedback,            \* feedback handler: its last invocation
    call_details,        \* queue-id updater: the call-details index
    extra_metadata,      \* queue-id updater: the extra-metadata files, by filename prefix
    issued,              \* queue-id updater: the writes it issued, in order, per run
    ingested             \* queue-id updater: a call was ingested since the last run

\* The state of the transcription-request handler and its search client.
transcribeVars == <<index, index_changes, table, queue, pc, call_ids, body_shape, bound,
                    trace, failed, es_response, raised, job_id, epoch,
                    call_metadata_es_list, call_metadata_list, response, es_call>>

\* The state of the lambda_handler decorator.
decoratorVars == <<decorated>>

\* The state of the search-client sessions.
sessionVars == <<ES_HEADERS, instances>>

\* The state of the feedback handler.
feedbackVars == <<bucket, feedback>>

\* The state of the queue-id updater.
queueIdVars == <<call_details, extra_metadata, issued, ingested>>

\* What the transcription-request handler never touches.
otherLambdas == <<decoratorVars, sessionVars, feedbackVars, queueIdVars>>

vars == <<transcribeVars, otherLambdas>>

NoJob == "none"
NoEpoch == [epoch_time |-> 0, epoch_ttl |-> 0]
NoFailure == [step |-> "none", cause |-> "none"]
NoAnswer == [answer |-> "none", hits |-> {}]
NoResponse == [statusCode |-> 0, body |-> <<>>, errorMessage |-> <<>>, invalid |-> {}]

-----------------------------------------------------------------------------
(* Exceptions and the response the decorator builds from them *)

NoExc == [kind |-> "none", message |-> <<>>, invalid |-> {}]

Exc(kind, message) == [kind |-> kind, message |-> message, invalid |-> {}]

\* error_status of the handler, looked up as lambda_handler does; a class the
\* map does not hold is an internal server error.
status_code_map(kind) ==
    CASE kind = "AccessDeniedError" -> 403
      [] kind = "ValidationError" -> 400
      [] kind = "ConfigurationError" -> 500
      [] kind = "SQSError" -> 500
      [] kind = "ElasticsearchFailedRequestError" -> 500
      [] kind = "PydanticValidationError" -> 400
      [] OTHER -> 500

\* wrapped(): the response for an exception raised by the handler.
error_response(exc) ==
    LET status_code == status_code_map(exc.kind)
    IN  [statusCode |-> status_code,
         body |-> <<>>,
         errorMessage |-> IF status_code # 500 THEN exc.message
                          ELSE <<"An internal error occurred.">>,
         invalid |-> IF status_code # 500 THEN exc.invalid ELSE {}]

\* wrapped(): the response for a (status_code, body) tuple the handler returns.
success_response(status_code, body) ==
    [statusCode |-> status_code, body |-> body, errorMessage |-> <<>>, invalid |-> {}]

-----------------------------------------------------------------------------
(* handler(): the steps up to the validation of the call ids *)

Fault(step, cause) == [step |-> step, cause |-> cause]

\* What event_parser.extract_body may raise.
BodyFaults == {Fault("extract_body", c) : c \in {"ValidationError", "Exception"}}

\* What the steps of the first try block may raise, and what the access
\* query may answer instead of a hit.
TrySteps == <<"extract_credentials", "get_user_groups", "create_es_client",
              "validate_user_access">>

TryBinds == <<"credentials", "user_groups", "es_client", "-">>

TryFaults ==
    {Fault(TrySteps[i], c) : i \in 1..3, c \in {"AccessDeniedError", "ValueError", "Exception"}}
    \cup {Fault("validate_user_access", c) : c \in {"no_hits", "HTTP403", "HTTPError"}}

SetupSteps == <<"create_dynamodb_client", "create_sqs_client", "create_query">>

SetupNeeds == <<"credentials", "credentials", "user_groups">>

SetupFaults == {Fault(SetupSteps[i], "Exception") : i \in 1..3}

\* validate_user_access: true only when the access-rights query returns a hit;
\* no hit, and any exception of the query, give false.
validate_user_access(answer) == answer = "hits"

\* A plausible slip: every exception of the first try block logged and
\* swallowed, as the ValueError is.
try_except_swallowing(cause) == NoExc

\* The except clauses of the first try block.
try_except(cause) ==
    CASE cause \in {"AccessDeniedError", "no_hits", "HTTP403", "HTTPError"} ->
            Exc("AccessDeniedError", <<"403 Forbidden: Access to Elasticsearch denied.">>)
      [] cause = "ValueError" -> NoExc
      [] OTHER ->
            Exc("ConfigurationError", <<"Unexpected error during Elasticsearch setup: ", cause>>)

\* The first try block: the steps it runs, the names it binds, and what it raises.
handler_try(fault) ==
    LET stop == IF \E i \in 1..4 : TrySteps[i] = fault.step
                THEN CHOOSE i \in 1..4 : TrySteps[i] = fault.step
                ELSE 0
        access == IF stop = 4 THEN fault.cause ELSE "hits"
        ran == IF stop = 0 THEN TrySteps ELSE SubSeq(TrySteps, 1, stop)
        done == IF stop = 0 THEN 4 ELSE stop - 1
    IN  [trace |-> ran,
         bound |-> {TryBinds[i] : i \in 1..done} \ {"-"},
         failed |-> IF stop = 0 THEN NoFailure ELSE fault,
         raised |-> IF stop = 0 THEN NoExc
                    ELSE IF stop = 4 /\ ~validate_user_access(access)
                         THEN try_except("AccessDeniedError")
                         ELSE try_except(fault.cause)]

\* The client and access-filter set-up after the try block: a step whose
\* argument is an unbound local raises before the call is made.
handler_setup(names, fault) ==
    LET Stops(i) == SetupNeeds[i] \notin names \/ SetupSteps[i] = fault.step
        stop == IF \E i \in 1..3 : Stops(i)
                THEN CHOOSE i \in 1..3 : Stops(i) /\ \A j \in 1..(i - 1) : ~Stops(j)
                ELSE 0
        unbound == stop # 0 /\ SetupNeeds[stop] \notin names
    IN  [trace |-> IF stop = 0 THEN SetupSteps
                   ELSE IF unbound THEN SubSeq(SetupSteps, 1, stop - 1)
                   ELSE SubSeq(SetupSteps, 1, stop),
         failed |-> IF stop = 0 \/ unbound THEN NoFailure ELSE fault,
         raised |-> IF stop = 0 THEN NoExc
                    ELSE IF unbound THEN Exc("UnboundLocalError", <<SetupNeeds[stop]>>)
                    ELSE Exc(fault.cause, <<fault.step>>)]

-----------------------------------------------------------------------------
(* The search index and the two queries the handler sends to it *)

\* A plausible slip: the size taken from the set of identifiers.
validation_query_size_of_set(ids) ==
    [ids |-> {es_id(x) : x \in Range(ids)}, access_restriction |-> TRUE,
     size |-> Cardinality(Range(ids))]

\* validate_calls_id_es: the query it builds.
validation_query(ids) ==
    [ids |-> {es_id(x) : x \in Range(ids)}, access_restriction |-> TRUE, size |-> Len(ids)]

\* A plausible slip: the re-query not restricted to the identifiers of the
\* request.
prepare_es_query_without_ids(ids) ==
    [ids |-> CallIds, access_restriction |-> FALSE, size |-> MaxCalls]

\* OnRequestJobPublisher.__prepare_es_query.
prepare_es_query(ids) ==
    [ids |-> {es_id(x) : x \in Range(ids)}, access_restriction |-> FALSE, size |-> Len(ids)]

\* The documents of idx a query matches.
Matches(idx, query) ==
    {c \in query.ids : /\ idx[c].present
                       /\ idx[c].recent
                       /\ ~idx[c].transcribed
                       /\ (query.access_restriction => idx[c].permitted)}

\* The hit sets the index may return: at most query.size of the matches.
SearchResults(idx, query) ==
    LET m == Matches(idx, query)
    IN  IF Cardinality(m) <= query.size THEN {m}
        ELSE {h \in SUBSET m : Cardinality(h) = query.size}

\* ElasticSearchV2.__request: how a search can end.
EsAnswers == {"ok", "HTTP403", "HTTPError"}

\* How the search of validate_calls_id_es can end for a body of the given
\* shape: the index takes an array as the value of a terms clause and answers
\* a string or an object there with an error.
TermsAnswers(shape) ==
    IF shape \in {"string", "object"} THEN EsAnswers \ {"ok"} ELSE EsAnswers

\* A plausible slip: the 403 branch missing.
es_request_error_no_403(answer) ==
    Exc("ElasticsearchFailedRequestError", <<"HTTP error from Elasticsearch">>)

\* ElasticSearchV2.__request: the exception for a response that is not 2xx.
es_request_error(answer) ==
    IF answer = "HTTP403"
    THEN Exc("AccessDeniedError", <<"403 Forbidden: Access to Elasticsearch denied.">>)
    ELSE Exc("ElasticsearchFailedRequestError", <<"HTTP error from Elasticsearch">>)

-----------------------------------------------------------------------------
(* validate_calls_id_es *)

\* A plausible slip: the difference taken the other way round.
invalid_call_ids_swapped(call_ids_set, hits) == hits \ call_ids_set

invalid_call_ids(call_ids_set, hits) == call_ids_set \ hits

\* A plausible slip: the requested values turned into id texts before the
\* comparison with the hits.
validate_calls_id_es_coercing(ids, answer, hits) ==
    LET call_ids_set == {es_id(x) : x \in Range(ids)}
        search_error == es_request_error(answer)
    IN  IF answer # "ok"
        THEN IF search_error.kind = "AccessDeniedError"
             THEN Exc("AccessDeniedError", <<"Access to Elasticsearch was denied.">>)
             ELSE Exc("ValidationError",
                      <<"Elasticsearch query failed with error: ">> \o search_error.message)
        ELSE IF hits # call_ids_set
        THEN [kind |-> "ValidationError",
              message |-> <<"Elasticsearch query failed with error: ", "Invalid call_ids: ">>,
              invalid |-> invalid_call_ids(call_ids_set, hits)]
        ELSE NoExc

\* A plausible slip: a failed search read as a search without hits.
validate_calls_id_es_failure_as_no_hits(ids, answer, hits) ==
    LET call_ids_set == Range(ids)
        es_call_ids == IF answer = "ok" THEN hits ELSE {}
    IN  IF es_call_ids # call_ids_set
        THEN [kind |-> "ValidationError",
              message |-> <<"Elasticsearch query failed with error: ", "Invalid call_ids: ">>,
              invalid |-> invalid_call_ids(call_ids_set, es_call_ids)]
        ELSE NoExc

\* What validate_calls_id_es raises (NoExc: it returns) for the answer of the
\* search; the ValidationError of the comparison is raised inside the try
\* block and so passes through its last except clause.
validate_calls_id_es(ids, answer, hits) ==
    LET call_ids_set == Range(ids)
        search_error == es_request_error(answer)
    IN  IF answer # "ok"
        THEN IF search_error.kind = "AccessDeniedError"
             THEN Exc("AccessDeniedError", <<"Access to Elasticsearch was denied.">>)
             ELSE Exc("ValidationError",
                      <<"Elasticsearch query failed with error: ">> \o search_error.message)
        ELSE IF hits # call_ids_set
        THEN [kind |-> "ValidationError",
              message |-> <<"Elasticsearch query failed with error: ", "Invalid call_ids: ">>,
              invalid |-> invalid_call_ids(call_ids_set, hits)]
        ELSE NoExc

\* The validator of handler.py: the same comparison outside any try block.
validate_calls_id_es_v0(ids, hits) ==
    LET call_ids_set == Range(ids)
    IN  IF hits # call_ids_set
        THEN [kind |-> "ValidationError",
              message |-> <<"Invalid call_ids: ">>,
              invalid |-> invalid_call_ids(call_ids_set, hits)]
        ELSE NoExc

\* A plausible slip: the last except clause logs and does not raise.
validation_except_logs_only(exc) ==
    IF exc.kind = "AccessDeniedError"
    THEN Exc("AccessDeniedError", <<"403 Forbidden: Access to Elasticsearch denied.">>)
    ELSE NoExc

\* handler(): the except clauses around the call of validate_calls_id_es.
validation_except(exc) ==
    CASE exc.kind = "AccessDeniedError" ->
            Exc("AccessDeniedError", <<"403 Forbidden: Access to Elasticsearch denied.">>)
      [] exc.kind = "ElasticsearchFailedRequestError" -> exc
      [] OTHER ->
            [kind |-> "ValidationError",
             message |-> <<"Unexpected error during call ID validation: ">> \o exc.message,
             invalid |-> exc.invalid]

-----------------------------------------------------------------------------
(* Job ids, job records and queue messages *)

\* The user the authorizer resolved for the invocation.
user_email(r) == r

\* A plausible slip: a job id that does not differ between invocations.
generate_job_id_fixed(r) == <<"job", "A">>

\* A plausible slip: the random prefix left out, so that invocations of the
\* same second get the same id.
generate_job_id_time_only(r) == <<"job", "now">>

\* generate_job_id: a random prefix and the time, taken as unique per invocation.
generate_job_id(r) == <<"job", r>>

\* The readings the clock can give.
Times == 0..MaxClock

\* DAYS_TO_EXPIRE of the deployment.
days_to_expire == 60

\* dynamodb_mapper.convert_datetime_to_epoch_time: the clock, in epoch seconds.
convert_datetime_to_epoch_time(now) == now

\* dynamodb_mapper.create_epoch_time_to_live: the clock plus the days, in
\* epoch seconds.
create_epoch_time_to_live(now, days) == now + days * 86400

\* OnRequestJobUpdater.__create_transcribe_job.
TranscribeOnRequestJob(call_id, job, user, last_update, expire_at) ==
    [jobId |-> job, callId |-> call_id, userId |-> user, lastUpdate |-> last_update,
     expireAt |-> expire_at, status |-> "IN_PROGRESS"]

\* A plausible slip: only the first call id gets an item.
dynamodb_items_first_only(job, ids, user, last_update, expire_at) ==
    [i \in 1..(IF Len(ids) = 0 THEN 0 ELSE 1) |->
        TranscribeOnRequestJob(ids[i], job, user, last_update, expire_at)]

\* A plausible slip: a job id made per record instead of per request.
dynamodb_items_job_per_item(job, ids, user, last_update, expire_at) ==
    [i \in 1..Len(ids) |->
        TranscribeOnRequestJob(ids[i], <<job, i>>, user, last_update, expire_at)]

\* A plausible slip: the clock read for every record, and ticking meanwhile.
dynamodb_items_clock_per_item(job, ids, user, last_update, expire_at) ==
    [i \in 1..Len(ids) |->
        TranscribeOnRequestJob(ids[i], job, user, last_update + i - 1, expire_at + i - 1)]

\* OnRequestJobUpdater.__call__: the items of the batch, one per element of
\* call_ids, all with the epoch_time and epoch_ttl computed before the map.
dynamodb_items(job, ids, user, last_update, expire_at) ==
    [i \in 1..Len(ids) |->
        TranscribeOnRequestJob(ids[i], job, user, last_update, expire_at)]

\* DynamoDBMapper.write_batch: the items a batch write leaves in the table,
\* all of them when it succeeds, any part of them when it fails.
write_batch(items, ok) ==
    IF ok THEN {Range(items)} ELSE SUBSET Range(items)

\* SQSAdapter.send_message_batch: the messages a batch send delivers, all of
\* them when it succeeds, any part of them when it fails.
send_message_batch(messages, ok) ==
    IF ok THEN {messages} ELSE SUBSET messages

\* The environment of the publisher.
AUDIO_SOURCE_BUCKET == "test-audio-source-bucket"

AUDIO_SOURCE_PREFIX == "test-audio-source-prefix"

\* JSON values for a field CallMetadata declares as int: the number n, and
\* the string that holds the decimal text of n.
JsonInt(n) == [type |-> "int", value |-> n]

JsonStr(n) == [type |-> "str", value |-> n]

\* The _source the re-query returns for the document of call c, as other
\* systems indexed it: a sid and a wav_url of their own, a filename_prefix, a
\* duration written as a number or as its text, a field of type str, and
\* whether the whole has the CallMetadata shape.
es_source(c, doc) ==
    [sid |-> 0,
     wav_url |-> <<"s3://", "legacy-bucket", "/", AUDIO_SOURCE_PREFIX, "/", 10 * c, ".wav">>,
     filename_prefix |-> 10 * c,
     duration |-> IF c % 2 = 0 THEN JsonStr(c) ELSE JsonInt(c),
     agent_email |-> <<"agent", c>>,
     wellformed |-> doc.wellformed]

\* OnRequestJobPublisher.__build_wav_url.
build_wav_url(filename_prefix) ==
    <<"s3://", AUDIO_SOURCE_BUCKET, "/", AUDIO_SOURCE_PREFIX, "/", filename_prefix, ".wav">>

\* A plausible slip: the dict merged in the other order, the indexed values last.
call_metadata_es_source_last(c, doc) == es_source(c, doc)

\* __get_metadata_from_es: the dict merged for the hit with _id c:
\* {**_source, "sid": _id, "wav_url": ...}, the later keys replacing the
\* indexed ones.
call_metadata_es(c, doc) ==
    LET source == es_source(c, doc)
    IN  [source EXCEPT !.sid = c, !.wav_url = build_wav_url(source.filename_prefix)]

\* CallMetadata: the model pydantic builds from a dict of its shape; a
\* numeric string in an int field becomes the number.
CallMetadata(d) ==
    [sid |-> d.sid, wav_url |-> d.wav_url, filename_prefix |-> d.filename_prefix,
     duration |-> JsonInt(d.duration.value), agent_email |-> d.agent_email]

\* A plausible slip: the records that fail the validation left out.
model_validate_skipping_invalid(dicts) ==
    [raised |-> NoExc, root |-> {CallMetadata(d) : d \in {e \in dicts : e.wellformed}}]

\* CallMetadataList.model_validate: the list of models, or the error raised
\* for the whole list when one dict does not have the CallMetadata shape.
model_validate(dicts) ==
    IF \A d \in dicts : d.wellformed
    THEN [raised |-> NoExc, root |-> {CallMetadata(d) : d \in dicts}]
    ELSE [raised |-> Exc("PydanticValidationError", <<"validation error for CallMetadataList">>),
          root |-> {}]

\* OnRequestEventModel.to_sqs_message: the record of the message body, the
\* dump of the model with the two job fields and the model's wav_url.
to_sqs_message(call_metadata, job, user) ==
    [sid |-> call_metadata.sid,
     filename_prefix |-> call_metadata.filename_prefix,
     duration |-> call_metadata.duration,
     agent_email |-> call_metadata.agent_email,
     on_request_job_id |-> job,
     on_request_job_user |-> user,
     wav_url |-> call_metadata.wav_url]

\* OnRequestJobPublisher.__create_on_request_events and
\* __publish_batch_calls_to_sqs: one message per metadata record.
sqs_message_list(metadata, job, user) ==
    {to_sqs_message(call_metadata, job, user) : call_metadata \in metadata}

-----------------------------------------------------------------------------
(* The search client, ElasticSearchV2 (elasticsearch.py and new_elastic.py) *)

MaxClientCalls == 2    \* operations one client is asked to run

DefaultMaxRetries == 3

ClientOps == {"request", "get_document", "search_documents", "add_document",
              "update_document", "update_partial_document",
              "update_partial_document_by_query", "update_documents_by_query"}

\* The operations that take max_retries.
OpsWithRetries == {"update_document", "update_partial_document",
                   "update_partial_document_by_query", "update_documents_by_query"}

\* The body an operation hands to __request: none, a dict json.dumps can
\* serialise, or a dict holding a value it cannot.
ClientBodies(op) ==
    CASE op = "get_document" -> {"None"}
      [] op = "request" -> {"None", "dict", "unserialisable"}
      [] OTHER -> {"dict", "unserialisable"}

MaxRetriesValues(op) == IF op \in OpsWithRetries THEN {0, DefaultMaxRetries} ELSE {0}

\* What session.request may give: a transport failure, or a response with a
\* status and a text that is JSON or is not.
HttpAnswers ==
    {[transport |-> "ConnectionError", status_code |-> 0, json |-> FALSE]}
    \cup {[transport |-> "ok", status_code |-> c, json |-> j] :
             c \in {200, 403, 404, 500}, j \in BOOLEAN}

NoCall == [op |-> "none", body |-> "None", max_retries |-> 0, calls |-> 0,
           requests |-> 0, answer |-> 0, raised |-> NoExc]

\* ElasticSearchV2.__request: json.dumps of the body before the try block,
\* then one session.request and raise_for_status inside it.
es_request(body, answer) ==
    IF body = "unserialisable"
    THEN [requests |-> 0, raised |-> Exc("TypeError", <<"Object is not JSON serializable">>)]
    ELSE IF answer.transport # "ok"
    THEN [requests |-> 1,
          raised |-> Exc("ElasticsearchFailedRequestError",
                         <<"Error with Elasticsearch server: ", answer.transport>>)]
    ELSE IF answer.status_code >= 400
    THEN [requests |-> 1,
          raised |-> es_request_error(IF answer.status_code = 403 THEN "HTTP403"
                                      ELSE "HTTPError")]
    ELSE [requests |-> 1, raised |-> NoExc]

\* A plausible slip: max_retries used as the length of a client retry loop.
es_operation_retrying(op, body, max_retries, answer) ==
    LET sent == es_request(body, answer)
    IN  IF sent.raised = NoExc /\ ~answer.json
        THEN [requests |-> sent.requests,
              raised |-> Exc("JSONDecodeError", <<"Expecting value">>)]
        ELSE IF sent.raised.kind = "ElasticsearchFailedRequestError"
        THEN [requests |-> sent.requests + max_retries, raised |-> sent.raised]
        ELSE sent

\* An operation of the client: one call of __request, then json.loads of the
\* response text, outside any try block. max_retries only goes into the URL.
es_operation(op, body, max_retries, answer) ==
    LET sent == es_request(body, answer)
    IN  IF sent.raised = NoExc /\ ~answer.json
        THEN [requests |-> sent.requests,
              raised |-> Exc("JSONDecodeError", <<"Expecting value">>)]
        ELSE sent

-----------------------------------------------------------------------------
(* common/decorater.py: load_json_body and lambda_handler *)

MaxInvocations == 2    \* invocations of one wrapped handler

\* The classes an exception of class cls derives from, most specific first
\* (type(e).__mro__ up to Exception).
Mro(cls) ==
    CASE cls = "QuestionIdError" ->
            <<"QuestionIdError", "FileNotFoundError", "OSError", "Exception">>
      [] cls = "FileNotFoundError" -> <<"FileNotFoundError", "OSError", "Exception">>
      [] cls = "PydanticValidationError" ->
            <<"PydanticValidationError", "ValueError", "Exception">>
      [] cls = "Exception" -> <<"Exception">>
      [] OTHER -> <<cls, "Exception">>

\* error_status arguments: none given, the one of the feedback handler, one
\* with explicit entries for status 500, and one with a catch-all entry.
DefaultErrorStatus == <<<<"Exception", 500>>>>

FeedbackErrorStatus ==
    <<<<"QuestionIdError", 404>>, <<"FeedbackError", 400>>,
      <<"PydanticValidationError", 400>>>>

ErrorStatusArgs ==
    {DefaultErrorStatus,
     FeedbackErrorStatus,
     <<<<"FileNotFoundError", 404>>, <<"FeedbackError", 500>>,
       <<"PydanticValidationError", 500>>>>,
     <<<<"Exception", 400>>>>}

\* dict(error_status): of two pairs with the same class the later one stays.
dict(pairs) ==
    [k \in {pairs[i][1] : i \in DOMAIN pairs} |->
        pairs[CHOOSE i \in DOMAIN pairs :
                 /\ pairs[i][1] = k
                 /\ \A j \in DOMAIN pairs : pairs[j][1] = k => j <= i][2]]

\* json.dumps and json.loads of a value that serialises.
json_dumps(value) == [json |-> value]

json_loads(text) == text.json

GenericErrorMessage == "An internal error occurred."

\* What the wrapped function does when it is called: it returns a response,
\* a (status_code, body) pair or a value json.dumps cannot serialise, or it
\* raises.
HandlerOutcomes ==
    {[kind |-> k, cls |-> "none", message |-> "none", status_code |-> 0] :
        k \in {"returns", "returns_unserialisable"}}
    \cup {[kind |-> "returns_pair", cls |-> "none", message |-> "none", status_code |-> c] :
            c \in {201, 404}}
    \cup {[kind |-> "raises", cls |-> c, message |-> m, status_code |-> 0] :
            c \in {"QuestionIdError", "FileNotFoundError", "FeedbackError",
                   "PydanticValidationError", "KeyError", "Exception"},
            m \in {"detail one", "detail two"}}

NoReturn == [returned |-> FALSE, statusCode |-> 0, body |-> json_dumps({}), escaped |-> "none"]

Returned(status_code, body) ==
    [returned |-> TRUE, statusCode |-> status_code, body |-> json_dumps(body),
     escaped |-> "none"]

\* A plausible slip: the exception's message in every error response.
wrapped_never_generic(error_status, outcome) ==
    LET by_class == dict(error_status)
        mro == Mro(outcome.cls)
        known == {i \in DOMAIN mro : mro[i] \in DOMAIN by_class}
        error_type == IF known = {} THEN "Exception"
                      ELSE mro[CHOOSE i \in known : \A j \in known : i <= j]
        status_code == IF error_type \in DOMAIN by_class
                       THEN by_class[error_type] ELSE 500
    IN  CASE outcome.kind = "returns" -> Returned(200, {<<"message", "saved">>})
          [] outcome.kind = "returns_pair" ->
                Returned(outcome.status_code, {<<"message", "saved">>})
          [] outcome.kind = "returns_unserialisable" ->
                [NoReturn EXCEPT !.escaped = "TypeError"]
          [] outcome.kind = "raises" /\ outcome.cls = "PydanticValidationError" ->
                Returned(400, {<<"errorMessage", outcome.message>>})
          [] OTHER -> Returned(status_code, {<<"errorMessage", outcome.message>>})

\* lambda_handler's wrapped(): the response for what the handler returned or
\* raised. The response is serialised after the try statement.
wrapped(error_status, outcome) ==
    LET by_class == dict(error_status)
        mro == Mro(outcome.cls)
        known == {i \in DOMAIN mro : mro[i] \in DOMAIN by_class}
        error_type == IF known = {} THEN "Exception"
                      ELSE mro[CHOOSE i \in known : \A j \in known : i <= j]
        status_code == IF error_type \in DOMAIN by_class
                       THEN by_class[error_type] ELSE 500
    IN  CASE outcome.kind = "returns" -> Returned(200, {<<"message", "saved">>})
          [] outcome.kind = "returns_pair" ->
                Returned(outcome.status_code, {<<"message", "saved">>})
          [] outcome.kind = "returns_unserialisable" ->
                [NoReturn EXCEPT !.escaped = "TypeError"]
          [] outcome.kind = "raises" /\ outcome.cls = "PydanticValidationError" ->
                Returned(400, {<<"errorMessage", outcome.message>>})
          [] OTHER ->
                Returned(status_code,
                         {<<"errorMessage", IF status_code # 500 THEN outcome.message
                                            ELSE GenericErrorMessage>>})

\* load_json_body: a body that is a string is parsed before the wrapped
\* function is called; when it does not parse the function is not called.
load_json_body(event_body, error_status, outcome) ==
    IF event_body = "malformed_text"
    THEN [called |-> FALSE, out |-> Returned(400, {<<"error", "BAD REQUEST">>})]
    ELSE [called |-> TRUE, out |-> wrapped(error_status, outcome)]

-----------------------------------------------------------------------------
(* The search-client modules: ES_HEADERS and the session of each client *)

MaxInstances == 3      \* clients constructed in one process

\* The auth argument: none, a dict of headers, or an AWS4Auth object.
NoAuth == [type |-> "None", of |-> "nobody", headers |-> <<>>]

\* __ensure_auth: part_000 keeps every dict; elasticsearch.py turns whatever
\* is falsy, the empty dict too, into None.
ensure_auth(module, auth) ==
    IF module = "part_000"
    THEN auth
    ELSE IF auth.type = "dict" /\ DOMAIN auth.headers = {} THEN NoAuth ELSE auth

\* __create_session: session.headers is bound to the module's ES_HEADERS
\* object itself, not to a copy; part_000 then updates session.headers, that
\* is ES_HEADERS, with a dict auth. The result is the session and ES_HEADERS
\* as the call leaves it.
create_session(module, auth, headers) ==
    IF module = "part_000" /\ auth.type = "dict"
    THEN [ES_HEADERS |-> [k \in DOMAIN headers \cup DOMAIN auth.headers |->
                            IF k \in DOMAIN auth.headers THEN auth.headers[k]
                            ELSE headers[k]],
          session |-> [headers |-> "ES_HEADERS", auth |-> NoAuth]]
    ELSE [ES_HEADERS |-> headers,
          session |-> [headers |-> "ES_HEADERS", auth |-> auth]]

-----------------------------------------------------------------------------
(* The feedback handlers: lambda_function.py and lambdas/lambda_function.py *)

MaxQuestions == 2      \* question identifiers known to the model
MaxFeedbackCalls == 2  \* invocations of the feedback handler

QuestionIds == 1..MaxQuestions

\* questionId of pathParameters when it is None or the empty string.
NoQuestionId == 0

\* The environment of the tests.
PREFIX == "feedback"
FEEDBACK_PREFIX == "feedback"
QUESTION_PREFIX == "question"

\* f"{prefix}/{question_id}.json" and f"{prefix}/feedback_{uuid}_{question_id}.json":
\* a key without UUID has uuid 0.
s3_key(prefix, uuid, question_id) ==
    [prefix |-> prefix, uuid |-> uuid, question_id |-> question_id]

NoRaise == [cls |-> "none", message |-> "none"]

Raise(cls, message) == [cls |-> cls, message |-> message]

\* S3Adapter.try_get_object: a key the bucket does not hold gives
\* FileNotFoundError; every other ClientError is raised again as it is.
try_get_object(objects, key, answer) ==
    IF answer = "ClientError"
    THEN [raised |-> Raise("ClientError", "AccessDenied"), content |-> {}]
    ELSE IF key \notin DOMAIN objects
    THEN [raised |-> Raise("FileNotFoundError", "No such Object Found"), content |-> {}]
    ELSE [raised |-> NoRaise, content |-> {objects[key]}]

\* body_as_dict: an empty file is the empty dict; the rest is parsed.
body_as_dict(content) ==
    CASE content.kind = "empty" ->
            [raised |-> NoRaise, dict |-> [kind |-> "dict", data |-> 0, feedback |-> {}]]
      [] content.kind = "not_json" ->
            [raised |-> Raise("JSONDecodeError", "Expecting value"), dict |-> content]
      [] OTHER -> [raised |-> NoRaise, dict |-> content]

\* pydantic's validation of a bool field, not strict: a bool, the integers 0
\* and 1 and the strings that spell a truth value are accepted.
bool_lax(helpful) ==
    CASE helpful.type = "bool" -> {helpful.value = "true"}
      [] helpful.type = "str" /\ helpful.value = "yes" -> {TRUE}
      [] helpful.type = "int" /\ helpful.value = "1" -> {TRUE}
      [] OTHER -> {}

\* validate_feedback of the question-keyed handler: helpful must be a bool.
\* validate_feedback of the UUID-keyed handler: TypeAdapter(Feedback).
validate_feedback(version, helpful) ==
    IF version = "question_keyed"
    THEN IF helpful.type = "bool"
         THEN [raised |-> NoRaise, helpful |-> {helpful.value = "true"}]
         ELSE [raised |-> Raise("ValueError",
                                "Invalid feedback value: Must be a boolean True or False"),
               helpful |-> {}]
    ELSE IF bool_lax(helpful) # {}
         THEN [raised |-> NoRaise, helpful |-> bool_lax(helpful)]
         ELSE [raised |-> Raise("PydanticValidationError", "1 validation error for Feedback"),
               helpful |-> {}]

\* A plausible slip: the feedback saved over the question object.
feedback_s3_key_of_question(version, uuid, question_id) ==
    IF version = "question_keyed"
    THEN s3_key(PREFIX, 0, question_id)
    ELSE s3_key(QUESTION_PREFIX, 0, question_id)

\* The key the handler fetches, and the key it saves to.
question_s3_key(version, question_id) ==
    IF version = "question_keyed"
    THEN s3_key(PREFIX, 0, question_id)
    ELSE s3_key(QUESTION_PREFIX, 0, question_id)

feedback_s3_key(version, uuid, question_id) ==
    IF version = "question_keyed"
    THEN s3_key(PREFIX, 0, question_id)
    ELSE s3_key(FEEDBACK_PREFIX, uuid, question_id)

\* put_object: the object under the key is created or replaced.
try_save_object(objects, key, body) ==
    [k \in DOMAIN objects \cup {key} |-> IF k = key THEN body ELSE objects[k]]

\* handler() of build_handler: what it raises, and the bucket as it leaves it.
feedback_handler(version, objects, question_id, helpful, get_answer, put_ok, uuid) ==
    LET got == try_get_object(objects, question_s3_key(version, question_id), get_answer)
        existing == CHOOSE c \in got.content : TRUE
        parsed == body_as_dict(existing)
        checked == validate_feedback(version, helpful)
        dict_data == [parsed.dict EXCEPT !.feedback = checked.helpful]
        Fails(exc) == [raised |-> exc, bucket |-> objects, saved |-> {}]
    IN  IF question_id = NoQuestionId
        THEN Fails(Raise("QuestionIdError", "questionId is missing from pathParameters."))
        ELSE IF got.raised.cls = "ClientError"
        THEN Fails(Raise("QuestionIdError", "not found in S3."))
        ELSE IF got.raised # NoRaise
        THEN Fails(got.raised)
        ELSE IF parsed.raised # NoRaise
        THEN Fails(parsed.raised)
        ELSE IF checked.raised # NoRaise
        THEN Fails(checked.raised)
        ELSE IF ~put_ok
        THEN Fails(Raise("FeedbackError", "Error saving feedback to S3"))
        ELSE [raised |-> NoRaise,
              bucket |-> try_save_object(objects,
                                         feedback_s3_key(version, uuid, question_id),
                                         dict_data),
              saved |-> {feedback_s3_key(version, uuid, question_id)}]

\* The response of the decorated handler; the other handler is not
\* decorated, what it raises leaves it.
feedback_response(version, exc) ==
    IF version = "question_keyed"
    THEN IF exc = NoRaise THEN Returned(200, {<<"message", "saved">>}) ELSE NoReturn
    ELSE wrapped(FeedbackErrorStatus,
                 IF exc = NoRaise
                 THEN [kind |-> "returns", cls |-> "none", message |-> "none",
                       status_code |-> 0]
                 ELSE [kind |-> "raises", cls |-> exc.cls, message |-> exc.message,
                       status_code |-> 0])

NoFeedbackCall ==
    [calls |-> 0, uuids |-> 0, version |-> "none", question_id |-> NoQuestionId,
     helpful |-> [type |-> "absent", value |-> "absent"], get_answer |-> "ok", before |-> <<>>, raised |-> NoRaise,
     saved |-> {}, out |-> NoReturn]

-----------------------------------------------------------------------------
(* queue_id_updater.py: QueueIdUpdater *)

MaxQueueCalls == 3     \* documents of the call-details index
MaxRuns == 2           \* runs of the updater

QueueCalls == 1..MaxQueueCalls

\* A document of the call-details index: call_direction "1" is an inbound
\* call, "3" an internal one; recent says created_at_ is within the last
\* number_of_days days.
AbsentCall ==
    [present |-> FALSE, call_direction |-> "-", original_contact_id |-> "-",
     queue_id |-> "", recent |-> FALSE]

\* What ingestion writes: internal calls without queue_id, and inbound calls
\* with or without one.
IngestedCalls ==
    {d \in [present : {TRUE}, call_direction : {"1", "3"},
            original_contact_id : {"contact 1", "contact 2"},
            queue_id : {"", "sales"}, recent : BOOLEAN] :
        /\ d.call_direction = "3" => d.queue_id = ""
        /\ d.call_direction = "1" => d.recent}

\* filename_prefix of the document of a call.
filename_prefix(c) == 10 * c

\* A plausible slip: the search for internal calls without the queue_id term.
get_internal_calls_of_any_queue_id(idx) ==
    {c \in QueueCalls : /\ idx[c].present
                        /\ idx[c].recent
                        /\ idx[c].call_direction = "3"}

\* get_internal_calls_with_empty_queue_id: the hits of
\* create_get_empty_queue_id_query.
get_internal_calls_with_empty_queue_id(idx) ==
    {c \in QueueCalls : /\ idx[c].present
                        /\ idx[c].recent
                        /\ idx[c].call_direction = "3"
                        /\ idx[c].queue_id = ""}

\* get_queue_id_value_from_inbound_call: the queue_id of the first hit of
\* create_get_queue_id_query, with the hit it came from, None ({}) without a
\* hit. The query has no sort: the index lists the document top first when it
\* is a hit.
get_queue_id_value_from_inbound_call(idx, original_contact_id, top) ==
    LET hits == {c \in QueueCalls : /\ idx[c].present
                                    /\ idx[c].call_direction = "1"
                                    /\ idx[c].original_contact_id = original_contact_id}
        first == IF top \in hits THEN top
                 ELSE CHOOSE c \in hits : \A d \in hits : c <= d
    IN  IF hits = {} THEN {} ELSE {[hit |-> first, queue_id |-> idx[first].queue_id]}

\* update_queue_id: the script sets queue_id of the document.
update_queue_id(idx, call_id, queue_id_value) ==
    [idx EXCEPT ![call_id].queue_id = queue_id_value]

\* update_extra_metadata: a file that does not exist is skipped, another one
\* is saved with its queue_id set.
update_extra_metadata(files, file_prefix, queue_id_value) ==
    IF file_prefix \notin DOMAIN files
    THEN [files |-> files, writes |-> <<>>]
    ELSE [files |-> [files EXCEPT ![file_prefix].queue_id = queue_id_value],
          writes |-> <<[op |-> "try_save_object", target |-> file_prefix,
                        queue_id |-> queue_id_value, hit |-> 0]>>]

\* A plausible slip: the call patched with whatever the first hit holds.
patch_call_unguarded(st, c, queue_id_value) ==
    IF queue_id_value # {}
    THEN LET found == CHOOSE v \in queue_id_value : TRUE
             q == found.queue_id
             saved == update_extra_metadata(st.files, filename_prefix(c), q)
         IN  [index |-> update_queue_id(st.index, c, q),
              files |-> saved.files,
              writes |-> st.writes
                         \o <<[op |-> "update_queue_id", target |-> c, queue_id |-> q,
                               hit |-> found.hit]>>
                         \o saved.writes]
    ELSE st

\* __call__, the body of the loop for one call: with a queue_id value that is
\* neither None nor empty the index is updated, then the metadata file.
patch_call(st, c, queue_id_value) ==
    IF queue_id_value # {} /\ (\A v \in queue_id_value : v.queue_id # "")
    THEN LET found == CHOOSE v \in queue_id_value : TRUE
             q == found.queue_id
             saved == update_extra_metadata(st.files, filename_prefix(c), q)
         IN  [index |-> update_queue_id(st.index, c, q),
              files |-> saved.files,
              writes |-> st.writes
                         \o <<[op |-> "update_queue_id", target |-> c, queue_id |-> q,
                               hit |-> found.hit]>>
                         \o saved.writes]
    ELSE st

\* __call__, the loop over the hits of the first search, in the order of
\* their ids.
RECURSIVE queue_id_loop(_, _, _)
queue_id_loop(st, todo, top) ==
    IF todo = {} THEN st
    ELSE LET c == CHOOSE x \in todo : \A y \in todo : x <= y
             queue_id_value == get_queue_id_value_from_inbound_call(
                                   st.index, st.index[c].original_contact_id, top)
         IN  queue_id_loop(patch_call(st, c, queue_id_value), todo \ {c}, top)

-----------------------------------------------------------------------------
(* The state when the invocations start *)

TranscribeInit ==
    /\ index \in [CallIds -> Docs]
    /\ index_changes = 0
    /\ table = {}
    /\ queue = {}
    /\ pc = [r \in Requests |-> "start"]
    /\ call_ids = [r \in Requests |-> <<>>]
    /\ body_shape = [r \in Requests |-> "none"]
    /\ bound = [r \in Requests |-> {}]
    /\ trace = [r \in Requests |-> <<>>]
    /\ failed = [r \in Requests |-> NoFailure]
    /\ es_response = [r \in Requests |-> NoAnswer]
    /\ raised = [r \in Requests |-> NoExc]
    /\ job_id = [r \in Requests |-> NoJob]
    /\ epoch = [r \in Requests |-> NoEpoch]
    /\ call_metadata_es_list = [r \in Requests |-> {}]
    /\ call_metadata_list = [r \in Requests |-> {}]
    /\ response = [r \in Requests |-> NoResponse]
    /\ es_call = NoCall

\* No wrapped handler invoked yet.
DecoratorInit ==
    decorated = [calls |-> 0, error_status |-> DefaultErrorStatus, event_body |-> "absent",
                 called |-> FALSE,
                 outcome |-> [kind |-> "none", cls |-> "none", message |-> "none", status_code |-> 0],
                 out |-> NoReturn]

\* The search-client module as imported: no client constructed yet.
SessionInit ==
    /\ ES_HEADERS = [module \in {"part_000", "elasticsearch"} |->
                        [h \in {"Content-Type"} |-> "application/json"]]
    /\ instances = <<>>

\* The feedback handler idle, on an empty bucket.
FeedbackIdle ==
    /\ bucket = <<>>
    /\ feedback = NoFeedbackCall

\* The queue-id updater idle, on an empty index.
QueueIdIdle ==
    /\ call_details = [c \in QueueCalls |-> AbsentCall]
    /\ extra_metadata = <<>>
    /\ issued = <<>>
    /\ ingested = FALSE

Init ==
    /\ TranscribeInit
    /\ DecoratorInit
    /\ SessionInit
    /\ FeedbackIdle
    /\ QueueIdIdle

\* The first failure of an invocation is the one that is kept.
FirstFailure(r, fault) == IF failed[r] = NoFailure THEN fault ELSE failed[r]

\* handler() ends: lambda_handler turns what it raised or returned into the response.
Returns(r, exc) ==
    /\ pc' = [pc EXCEPT ![r] = "returned"]
    /\ raised' = [raised EXCEPT ![r] = exc]
    /\ response' = [response EXCEPT ![r] =
            IF exc = NoExc THEN success_response(201, call_ids[r]) ELSE error_response(exc)]

\* handler() goes on to its next step.
Continues(r, next) ==
    /\ pc' = [pc EXCEPT ![r] = next]
    /\ UNCHANGED <<raised, response>>

\* Another system writes document c of the index (ingestion, transcription).
IndexChange(c, doc) ==
    /\ index_changes < MaxIndexChanges
    /\ doc # index[c]
    /\ index' = [index EXCEPT ![c] = doc]
    /\ index_changes' = index_changes + 1
    /\ UNCHANGED <<otherLambdas, table, queue, pc, call_ids, body_shape, bound, trace, failed,
                   es_response, raised, job_id, epoch, call_metadata_es_list,
                   call_metadata_list, response, es_call>>

-----------------------------------------------------------------------------
(* handler() *)

\* handler(): from extract_body to the construction of the access filter.
handler_prologue(f0, f1, f2) ==
    LET t == handler_try(f1)
        s == handler_setup(t.bound, f2)
    IN  IF f0 # NoFailure
        THEN [trace |-> <<"extract_body">>, bound |-> {}, failed |-> f0,
              raised |-> Exc(f0.cause, <<f0.step>>)]
        ELSE IF t.raised # NoExc
        THEN [trace |-> <<"extract_body">> \o t.trace, bound |-> t.bound,
              failed |-> t.failed, raised |-> t.raised]
        ELSE [trace |-> <<"extract_body">> \o t.trace \o s.trace, bound |-> t.bound,
              failed |-> IF t.failed # NoFailure THEN t.failed ELSE s.failed,
              raised |-> s.raised]

\* handler(): lines up to the access filter; then call_ids is bound to the
\* event's body, a list of call identifiers.
Prepare(r) ==
    /\ pc[r] = "start"
    /\ \E f0 \in BodyFaults \cup {NoFailure},
          f1 \in TryFaults \cup {NoFailure},
          f2 \in SetupFaults \cup {NoFailure} :
          LET p == handler_prologue(f0, f1, f2)
          IN  /\ f0 # NoFailure => f1 = NoFailure
              /\ (f0 # NoFailure \/ handler_try(f1).raised # NoExc) => f2 = NoFailure
              /\ trace' = [trace EXCEPT ![r] = p.trace]
              /\ bound' = [bound EXCEPT ![r] = p.bound]
              /\ failed' = [failed EXCEPT ![r] = p.failed]
              /\ IF p.raised = NoExc
                 THEN /\ \E body \in RequestBodies :
                            /\ call_ids' = [call_ids EXCEPT ![r] = body.elements]
                            /\ body_shape' = [body_shape EXCEPT ![r] = body.shape]
                      /\ Continues(r, "validate")
                 ELSE /\ UNCHANGED <<call_ids, body_shape>>
                      /\ Returns(r, p.raised)
    /\ UNCHANGED <<otherLambdas, es_call, epoch, index, index_changes, table, queue, es_response, job_id,
                   call_metadata_es_list, call_metadata_list>>

\* handler(): the call of validate_calls_id_es in its try block. Without an
\* es_client the call is not made: reading the unbound local raises. For a
\* body that cannot be iterated set(call_ids) raises before the search.
Validate(r) ==
    /\ pc[r] = "validate"
    /\ IF "es_client" \notin bound[r]
       THEN /\ Returns(r, validation_except(Exc("UnboundLocalError", <<"es_client">>)))
            /\ UNCHANGED <<trace, failed, es_response>>
       ELSE IF body_shape[r] \in NotIterable
       THEN /\ Returns(r, validation_except(Exc("TypeError", <<"object is not iterable">>)))
            /\ trace' = [trace EXCEPT ![r] = Append(@, "validate_calls_id_es")]
            /\ failed' = [failed EXCEPT ![r] =
                             FirstFailure(r, Fault("validate_calls_id_es", "TypeError"))]
            /\ UNCHANGED es_response
       ELSE \E answer \in TermsAnswers(body_shape[r]),
               hits \in SearchResults(index, validation_query(call_ids[r])) :
               LET exc == validate_calls_id_es(call_ids[r], answer, hits)
                   out == IF exc = NoExc THEN NoExc ELSE validation_except(exc)
               IN  /\ trace' = [trace EXCEPT ![r] = Append(@, "validate_calls_id_es")]
                   /\ es_response' = [es_response EXCEPT ![r] =
                          [answer |-> answer, hits |-> IF answer = "ok" THEN hits ELSE {}]]
                   /\ IF out = NoExc
                      THEN /\ Continues(r, "record")
                           /\ UNCHANGED failed
                      ELSE /\ Returns(r, out)
                           /\ failed' = [failed EXCEPT ![r] =
                                 FirstFailure(r, Fault("validate_calls_id_es",
                                     IF answer = "ok" THEN "invalid_call_ids" ELSE answer))]
    /\ UNCHANGED <<otherLambdas, es_call, epoch, body_shape, index, index_changes, table, queue, call_ids,
                   bound, job_id, call_metadata_es_list, call_metadata_list>>

\* The key of an item of the job-status table.
Key(item) == <<item.jobId, item.callId>>

\* A plausible slip: the exception of the job updater caught and logged.
AfterJobUpdaterSwallowed(r, ok) ==
    /\ Continues(r, "fetch")
    /\ failed' = [failed EXCEPT ![r] =
                     IF ok THEN @ ELSE FirstFailure(r, Fault("job_updater", "ClientError"))]

\* handler(): the call of the job updater has no except clause: what the
\* batch write raises leaves handler().
AfterJobUpdater(r, ok) ==
    IF ok
    THEN /\ Continues(r, "fetch")
         /\ UNCHANGED failed
    ELSE /\ Returns(r, Exc("ClientError", <<"write_batch">>))
         /\ failed' = [failed EXCEPT ![r] =
                          FirstFailure(r, Fault("job_updater", "ClientError"))]

\* handler(): generate_job_id and the call of the job updater, which writes
\* the batch.
RecordJob(r) ==
    /\ pc[r] = "record"
    /\ \E ok \in BOOLEAN, now \in Times, later \in Times :
          LET epoch_time == convert_datetime_to_epoch_time(now)
              epoch_ttl == create_epoch_time_to_live(later, days_to_expire)
          IN  /\ now <= later
              /\ \E written \in write_batch(
                        dynamodb_items(generate_job_id(r), call_ids[r], user_email(r),
                                       epoch_time, epoch_ttl), ok) :
                    /\ job_id' = [job_id EXCEPT ![r] = generate_job_id(r)]
                    /\ epoch' = [epoch EXCEPT ![r] =
                                    [epoch_time |-> epoch_time, epoch_ttl |-> epoch_ttl]]
                    /\ trace' = [trace EXCEPT ![r] = @ \o <<"generate_job_id", "job_updater">>]
                    /\ table' = {t \in table : \A w \in written : Key(t) # Key(w)} \cup written
                    /\ AfterJobUpdater(r, ok)
    /\ UNCHANGED <<otherLambdas, es_call, body_shape, index, index_changes, queue, call_ids, bound,
                   es_response, call_metadata_es_list, call_metadata_list>>

\* A plausible slip: a failed publish that takes the job's records back.
PublisherRaisesCompensating(r, exc, fault) ==
    /\ Returns(r, exc)
    /\ failed' = [failed EXCEPT ![r] = FirstFailure(r, fault)]
    /\ table' = {t \in table : t.jobId # job_id[r]}

\* handler(): the call of the job publisher has no except clause and nothing
\* follows it on failure: the exception leaves handler(), the table is not
\* written.
PublisherRaises(r, exc, fault) ==
    /\ Returns(r, exc)
    /\ failed' = [failed EXCEPT ![r] = FirstFailure(r, fault)]
    /\ UNCHANGED table

\* OnRequestJobPublisher.__call__, first half: the metadata re-query and the
\* validation of its hits.
FetchMetadata(r) ==
    /\ pc[r] = "fetch"
    /\ \E answer \in EsAnswers,
          hits \in SearchResults(index, prepare_es_query(call_ids[r])) :
          LET merged == IF answer = "ok" THEN {call_metadata_es(c, index[c]) : c \in hits}
                        ELSE {}
              validated == model_validate(merged)
              exc == IF answer # "ok" THEN es_request_error(answer) ELSE validated.raised
          IN  /\ trace' = [trace EXCEPT ![r] = @ \o <<"job_publisher", "get_metadata_from_es">>]
              /\ call_metadata_es_list' = [call_metadata_es_list EXCEPT ![r] = merged]
              /\ IF exc = NoExc
                 THEN /\ call_metadata_list' = [call_metadata_list EXCEPT ![r] = validated.root]
                      /\ Continues(r, "send")
                      /\ UNCHANGED <<failed, table>>
                 ELSE /\ PublisherRaises(r, exc, Fault("get_metadata_from_es",
                                 IF answer = "ok" THEN "invalid_record" ELSE answer))
                      /\ UNCHANGED call_metadata_list
    /\ UNCHANGED <<otherLambdas, es_call, epoch, body_shape, index, index_changes, queue, call_ids, bound,
                   es_response, job_id>>

\* OnRequestJobPublisher.__call__, second half: the batch send; then handler()
\* returns 201 and the call ids.
SendBatch(r) ==
    /\ pc[r] = "send"
    /\ \E ok \in BOOLEAN :
       \E delivered \in send_message_batch(
                          sqs_message_list(call_metadata_list[r], job_id[r], user_email(r)), ok) :
          /\ trace' = [trace EXCEPT ![r] = Append(@, "send_message_batch")]
          /\ queue' = queue \cup delivered
          /\ IF ok
             THEN /\ Returns(r, NoExc)
                  /\ UNCHANGED <<failed, table>>
             ELSE PublisherRaises(r, Exc("SQSError", <<"send_message_batch">>),
                                  Fault("send_message_batch", "SQSError"))
    /\ UNCHANGED <<otherLambdas, es_call, epoch, body_shape, index, index_changes, call_ids, bound,
                   es_response, job_id, call_metadata_es_list, call_metadata_list>>

Next ==
    \/ \E c \in CallIds, doc \in Docs : IndexChange(c, doc)
    \/ \E r \in Requests : Prepare(r)
    \/ \E r \in Requests : Validate(r)
    \/ \E r \in Requests : RecordJob(r)
    \/ \E r \in Requests : FetchMetadata(r)
    \/ \E r \in Requests : SendBatch(r)

\* Two invocations that overlap.
Spec == Init /\ [][Next]_vars

\* One invocation, with the index written by other systems while it runs.
NextOne ==
    \/ \E c \in CallIds, doc \in Docs : IndexChange(c, doc)
    \/ Prepare("A")
    \/ Validate("A")
    \/ RecordJob("A")
    \/ FetchMetadata("A")
    \/ SendBatch("A")

SpecOne == Init /\ [][NextOne]_vars

\* A caller runs an operation of the search client.
ClientOperation(op, body, max_retries, answer) ==
    /\ es_call.calls < MaxClientCalls
    /\ LET out == es_operation(op, body, max_retries, answer)
       IN  es_call' = [op |-> op, body |-> body, max_retries |-> max_retries,
                       calls |-> es_call.calls + 1,
                       requests |-> es_call.requests + out.requests,
                       answer |-> answer.status_code, raised |-> out.raised]
    /\ UNCHANGED <<otherLambdas, index, index_changes, table, queue, pc, call_ids, body_shape, bound,
                   trace, failed, es_response, raised, job_id, epoch,
                   call_metadata_es_list, call_metadata_list, response>>

NextClient ==
    \E op \in ClientOps :
        \E body \in ClientBodies(op), max_retries \in MaxRetriesValues(op),
           answer \in HttpAnswers :
            ClientOperation(op, body, max_retries, answer)

InitClient == Init /\ index = [c \in CallIds |-> ValidDoc]

\* One search client, used for a few operations in a row.
SpecClient == InitClient /\ [][NextClient]_vars

\* A handler wrapped in lambda_handler is invoked: load_json_body, the
\* handler, and the response wrapped() builds.
Invoke(error_status, event_body, outcome) ==
    /\ decorated.calls < MaxInvocations
    /\ LET r == load_json_body(event_body, error_status, outcome)
       IN  decorated' = [calls |-> decorated.calls + 1, error_status |-> error_status,
                         event_body |-> event_body, called |-> r.called,
                         outcome |-> IF r.called THEN outcome
                                     ELSE [kind |-> "none", cls |-> "none",
                                           message |-> "none", status_code |-> 0],
                         out |-> r.out]
    /\ UNCHANGED <<transcribeVars, sessionVars, feedbackVars, queueIdVars>>

NextDecorator ==
    \E error_status \in ErrorStatusArgs, event_body \in {"json_text", "malformed_text", "object", "absent"},
       outcome \in HandlerOutcomes :
        Invoke(error_status, event_body, outcome)

\* One wrapped handler, invoked a few times.
SpecDecorator == InitClient /\ [][NextDecorator]_vars

\* ElasticSearchV2.__init__: a request constructs its client.
Construct(module, auth) ==
    /\ Len(instances) < MaxInstances
    /\ LET kept == ensure_auth(module, auth)
           made == create_session(module, kept, ES_HEADERS[module])
       IN  /\ ES_HEADERS' = [ES_HEADERS EXCEPT ![module] = made.ES_HEADERS]
           /\ instances' = Append(instances,
                                 [module |-> module, auth |-> kept, session |-> made.session])
    /\ UNCHANGED <<transcribeVars, decoratorVars, feedbackVars, queueIdVars>>

NextSessions ==
    \E module \in {"part_000", "elasticsearch"},
       auth \in {NoAuth}
                \cup {[type |-> "dict", of |-> u, headers |-> [h \in {"Authorization"} |-> u]] :
                        u \in {"user A", "user B"}}
                \cup {[type |-> "dict", of |-> "nobody", headers |-> <<>>]}
                \cup {[type |-> "AWS4Auth", of |-> "user A", headers |-> <<>>]} :
        Construct(module, auth)

\* One process in which a few requests construct their clients in turn.
SpecSessions == InitClient /\ [][NextSessions]_vars

\* The bucket when a handler is first invoked: some questions have an
\* object under the prefix the handler reads (question data without a
\* feedback field yet, an empty file, or a file that is not JSON), no feedback
\* was saved yet.
Buckets(version) ==
    {objects \in UNION {[keys ->
                            {[kind |-> "dict", data |-> q, feedback |-> {}] : q \in QuestionIds}
                            \cup {[kind |-> k, data |-> 0, feedback |-> {}] :
                                    k \in {"empty", "not_json"}}] :
                          keys \in SUBSET {question_s3_key(version, q) : q \in QuestionIds}} :
        \A k \in DOMAIN objects :
            objects[k].kind = "dict" => objects[k].data = k.question_id}

InitFeedback ==
    /\ TranscribeInit
    /\ index = [c \in CallIds |-> ValidDoc]
    /\ DecoratorInit
    /\ SessionInit
    /\ QueueIdIdle
    /\ \E version \in {"question_keyed", "uuid_keyed"} :
          /\ bucket \in Buckets(version)
          /\ feedback = [NoFeedbackCall EXCEPT !.version = version]

\* One invocation of the handler deployed on the bucket;
\* generate_feedback_uuid gives a UUID no earlier call gave.
Feedback(question_id, helpful, get_answer, put_ok) ==
    /\ feedback.calls < MaxFeedbackCalls
    /\ get_answer = "ClientError" => put_ok
    /\ LET version == feedback.version
           uuid == feedback.uuids + 1
           r == feedback_handler(version, bucket, question_id, helpful, get_answer,
                                 put_ok, uuid)
       IN  /\ bucket' = r.bucket
           /\ feedback' = [calls |-> feedback.calls + 1,
                           uuids |-> IF version = "uuid_keyed" /\ question_id # NoQuestionId
                                     THEN uuid ELSE feedback.uuids,
                           version |-> version, question_id |-> question_id,
                           helpful |-> helpful, get_answer |-> get_answer,
                           before |-> bucket, raised |-> r.raised, saved |-> r.saved,
                           out |-> feedback_response(version, r.raised)]
    /\ UNCHANGED <<transcribeVars, decoratorVars, sessionVars, queueIdVars>>

NextFeedback ==
    \E question_id \in QuestionIds \cup {NoQuestionId}, helpful \in {[type |-> "bool", value |-> "true"], [type |-> "bool", value |-> "false"],
                   [type |-> "str", value |-> "yes"], [type |-> "str", value |-> "maybe"],
                   [type |-> "absent", value |-> "absent"]},
       get_answer \in {"ok", "ClientError"}, put_ok \in BOOLEAN :
        Feedback(question_id, helpful, get_answer, put_ok)

\* A bucket of questions, and a few invocations of the feedback handler
\* deployed on it.
SpecFeedback == InitFeedback /\ [][NextFeedback]_vars

\* The index and the metadata files when the updater is first run: a
\* metadata file exists for some of the internal calls.
InitQueueId ==
    /\ TranscribeInit
    /\ index = [c \in CallIds |-> ValidDoc]
    /\ DecoratorInit
    /\ SessionInit
    /\ FeedbackIdle
    /\ call_details \in [QueueCalls ->
            {AbsentCall} \cup {d \in IngestedCalls : d.recent}]
    /\ \E with_file \in SUBSET {c \in QueueCalls : call_details[c].call_direction = "3"} :
          extra_metadata = [f \in {filename_prefix(c) : c \in with_file} |->
                               [queue_id |-> ""]]
    /\ issued = <<>>
    /\ ingested = FALSE

\* Ingestion adds a call to the index, without metadata file.
Ingest(c, doc) ==
    /\ ~call_details[c].present
    /\ call_details' = [call_details EXCEPT ![c] = doc]
    /\ ingested' = TRUE
    /\ UNCHANGED <<extra_metadata, issued>>
    /\ UNCHANGED <<transcribeVars, decoratorVars, sessionVars, feedbackVars>>

\* QueueIdUpdater.__call__: one run of the updater, from the first search to
\* its return.
QueueIdRun(top) ==
    /\ Len(issued) < MaxRuns
    /\ LET done == queue_id_loop(
                       [index |-> call_details, files |-> extra_metadata, writes |-> <<>>],
                       get_internal_calls_with_empty_queue_id(call_details), top)
       IN  /\ call_details' = done.index
           /\ extra_metadata' = done.files
           /\ issued' = Append(issued, [writes |-> done.writes, ingested |-> ingested])
    /\ ingested' = FALSE
    /\ UNCHANGED <<transcribeVars, decoratorVars, sessionVars, feedbackVars>>

NextQueueId ==
    \/ \E c \in QueueCalls, doc \in IngestedCalls : Ingest(c, doc)
    \/ \E top \in QueueCalls : QueueIdRun(top)

\* The updater run a few times while calls are ingested.
SpecQueueId == InitQueueId /\ [][NextQueueId]_vars

-----------------------------------------------------------------------------
(* Properties *)

\* The job records and the queue messages of an invocation.
RecordsOf(r) == {t \in table : t.userId = user_email(r)}

MessagesOf(r) == {m \in queue : m.on_request_job_user = user_email(r)}

\* The batch the updater of the request handed to write_batch.
BatchOf(r) ==
    dynamodb_items(job_id[r], call_ids[r], user_email(r), epoch[r].epoch_time,
                   epoch[r].epoch_ttl)

Called(r, step) == step \in Range(trace[r])

\* C1: every message in the work queue with job id J and sid C has a job
\* record keyed (J, C) in the table, and an invocation that has started its
\* batch send has all the records of its batch in the table.
C1_MessageHasJobRecord ==
    /\ \A m \in queue : \E t \in table : Key(t) = <<m.on_request_job_id, m.sid>>
    /\ \A r \in Requests :
          Called(r, "send_message_batch") =>
              Range(BatchOf(r)) \subseteq table

\* C1 happens: both invocations have a message for the same call in the queue.
C1_Witness ==
    \E m1 \in queue, m2 \in queue :
        m1.sid = m2.sid /\ m1.on_request_job_id # m2.on_request_job_id

\* The batch write of the job updater raised for the request.
UpdaterRaised(r) == failed[r] = Fault("job_updater", "ClientError")

\* C2: when the batch write of the job updater raised for a request, the
\* publisher was not invoked for it: no metadata re-query, no message sent.
C2_NoPublishAfterUpdaterFailure ==
    \A r \in Requests :
        UpdaterRaised(r) =>
            /\ pc[r] = "returned"
            /\ ~Called(r, "job_publisher")
            /\ ~Called(r, "get_metadata_from_es")
            /\ ~Called(r, "send_message_batch")
            /\ MessagesOf(r) = {}

\* C2 happens: a batch write raised after writing part of a batch of two.
C2_Witness ==
    \E r \in Requests :
        /\ UpdaterRaised(r)
        /\ raised[r].kind = "ClientError"
        /\ Cardinality(Range(call_ids[r])) = 2
        /\ Cardinality(RecordsOf(r)) = 1

\* The search of the validation returned the hit set H, a proper subset of
\* the requested identifiers S.
PartialHits(r) ==
    /\ es_response[r].answer = "ok"
    /\ es_response[r].hits # Range(call_ids[r])
    /\ es_response[r].hits \subseteq Range(call_ids[r])

\* C3: for requested identifiers S and hits H, a proper subset of S,
\* validate_calls_id_es fails with a validation error that reports exactly
\* S \ H as invalid (in updated_transcribe.py and in handler.py).
C3_InvalidIdsAreTheMissingOnes ==
    \A r \in Requests :
        PartialHits(r) =>
            LET S == Range(call_ids[r])
                H == es_response[r].hits
                e == validate_calls_id_es(call_ids[r], "ok", H)
                e0 == validate_calls_id_es_v0(call_ids[r], H)
            IN  /\ e.kind = "ValidationError" /\ e.invalid = S \ H
                /\ e0.kind = "ValidationError" /\ e0.invalid = S \ H
                /\ raised[r].kind = "ValidationError" /\ raised[r].invalid = S \ H

\* C3 happens: one of two requested identifiers was found.
C3_Witness ==
    \E r \in Requests :
        /\ PartialHits(r)
        /\ Cardinality(es_response[r].hits) = 1
        /\ Cardinality(Range(call_ids[r])) = 2
        /\ raised[r] # NoExc

\* C4: when the validation search returns hits for only part of the
\* requested identifiers, the response is 400 with a message containing
\* "Invalid call_ids: " and the missing ids, and the request has no job
\* record and no queue message, for the found identifiers either.
C4_PartialHitsRejected ==
    \A r \in Requests :
        PartialHits(r) =>
            /\ pc[r] = "returned"
            /\ response[r].statusCode = 400
            /\ "Invalid call_ids: " \in Range(response[r].errorMessage)
            /\ response[r].invalid = Range(call_ids[r]) \ es_response[r].hits
            /\ job_id[r] = NoJob
            /\ RecordsOf(r) = {}
            /\ MessagesOf(r) = {}

\* C4 happens: one of two identifiers was found and the request got its 400.
C4_Witness ==
    \E r \in Requests :
        /\ PartialHits(r)
        /\ es_response[r].hits # {}
        /\ response[r].statusCode = 400

\* The steps at which the search index answered HTTP 403.
Es403AtAccessCheck(r) == failed[r] = Fault("validate_user_access", "HTTP403")

Es403AtValidation(r) == es_response[r].answer = "HTTP403"

Es403AtRequery(r) == failed[r] = Fault("get_metadata_from_es", "HTTP403")

\* C5 as claimed: a 403 of the search index at any query step gives status
\* 403 and no job record written for the request.
C5_AsClaimed ==
    \A r \in Requests :
        (Es403AtAccessCheck(r) \/ Es403AtValidation(r) \/ Es403AtRequery(r)) =>
            /\ response[r].statusCode = 403
            /\ RecordsOf(r) = {}

\* C5, amended: a 403 of the search index at the user-access check or at the
\* validation query gives status 403 and no job record written for the
\* request; a 403 at the publisher's metadata re-query gives status 403 with
\* the job records of the request written before it and left in the table.
C5_Es403GivesStatus403 ==
    \A r \in Requests :
        /\ (Es403AtAccessCheck(r) \/ Es403AtValidation(r)) =>
              /\ response[r].statusCode = 403
              /\ ~Called(r, "job_updater")
              /\ RecordsOf(r) = {}
        /\ Es403AtRequery(r) =>
              /\ response[r].statusCode = 403
              /\ Called(r, "job_updater")
              /\ RecordsOf(r) = Range(BatchOf(r))

\* C5 happens: a 403 at the re-query of a request that wrote job records.
C5_Witness ==
    \E r \in Requests :
        /\ Es403AtRequery(r)
        /\ RecordsOf(r) # {}
        /\ response[r].statusCode = 403

\* The sids of the messages the request has in the queue.
SidsOf(r) == {m.sid : m \in MessagesOf(r)}

\* C6 as claimed: whenever the response is 201, the batch sent for the
\* request holds exactly one message per requested call identifier, also
\* when the index changed between the validation and the re-query.
C6_AsClaimed ==
    \A r \in Requests :
        response[r].statusCode = 201 =>
            /\ SidsOf(r) = Range(call_ids[r])
            /\ Cardinality(MessagesOf(r)) = Cardinality(Range(call_ids[r]))

BothAccepted(a, b, c) ==
    /\ a # b
    /\ response[a].statusCode = 201
    /\ response[b].statusCode = 201
    /\ c \in Range(call_ids[a]) \cap Range(call_ids[b])

\* C8: two overlapping requests for the same call can both be accepted, and
\* then the call has a job record under each of two different job ids; the
\* second request is not rejected and no record replaces the other.
C8_DuplicateJobsBothRecorded ==
    \A a \in Requests, b \in Requests, c \in CallIds :
        BothAccepted(a, b, c) =>
            /\ job_id[a] # job_id[b]
            /\ \E t \in table : Key(t) = <<job_id[a], c>>
            /\ \E t \in table : Key(t) = <<job_id[b], c>>

\* C8 happens: both requests passed validation for the same call, wrote its
\* job record, sent its message and returned 201.
C8_Witness ==
    \E a \in Requests, b \in Requests, c \in CallIds :
        /\ BothAccepted(a, b, c)
        /\ c \in es_response[a].hits \cap es_response[b].hits
        /\ \E t \in RecordsOf(a) : t.callId = c
        /\ \E t \in RecordsOf(b) : t.callId = c
        /\ c \in SidsOf(a) \cap SidsOf(b)

\* The publisher of the request failed: at the re-query, on an invalid
\* record, or at the batch send.
PublisherFailed(r) == failed[r].step \in {"get_metadata_from_es", "send_message_batch"}

\* C9: when the publisher fails after the job records of the request were
\* written, the request ends with an error response and its job records stay
\* in the table as written.
C9_RecordsStayAfterPublisherFailure ==
    \A r \in Requests :
        PublisherFailed(r) =>
            /\ pc[r] = "returned"
            /\ response[r].statusCode >= 400
            /\ RecordsOf(r) = Range(BatchOf(r))

\* C9 happens: a batch send failed for a request with two job records, and a
\* re-query hit a record that is not a CallMetadata.
C9_Witness ==
    \E r \in Requests :
        /\ PublisherFailed(r)
        /\ Cardinality(RecordsOf(r)) = 2
        /\ response[r].statusCode >= 400

\* C10 as claimed: once a step of handler() has failed, the request is
\* rejected and the failed step is the last one that ran.
C10_AsClaimed ==
    \A r \in Requests :
        failed[r] # NoFailure =>
            /\ pc[r] = "returned"
            /\ response[r].statusCode >= 400
            /\ Last(trace[r]) = failed[r].step

\* C11 as claimed: a failure of the search index other than HTTP 403 (another
\* status that is not 2xx, or a transport failure), at the
\* user-access check, the call-id validation or the metadata re-query, gives
\* a response with status 500.
C11_AsClaimed ==
    \A r \in Requests :
        (\/ failed[r] = Fault("validate_user_access", "HTTPError")
         \/ es_response[r].answer = "HTTPError"
         \/ failed[r] = Fault("get_metadata_from_es", "HTTPError")) =>
            response[r].statusCode = 500

\* The search of the validation failed for the request.
SearchFailedAtValidation(r) == es_response[r].answer \in {"HTTP403", "HTTPError"}

\* s ends with the elements of tail.
EndsWith(s, tail) ==
    /\ Len(tail) <= Len(s)
    /\ SubSeq(s, Len(s) - Len(tail) + 1, Len(s)) = tail

\* C12: in validate_calls_id_es a search that fails with AccessDeniedError is
\* propagated as AccessDeniedError, a search that fails in any other way
\* becomes a ValidationError whose message carries the message of the
\* underlying error; neither is reported as a list of invalid call ids.
C12_SearchFailureIsNotInvalidIds ==
    \A r \in Requests :
        SearchFailedAtValidation(r) =>
            LET answer == es_response[r].answer
                e == validate_calls_id_es(call_ids[r], answer, es_response[r].hits)
            IN  /\ answer = "HTTP403" => e.kind = "AccessDeniedError"
                /\ answer = "HTTPError" =>
                      /\ e.kind = "ValidationError"
                      /\ EndsWith(e.message, es_request_error(answer).message)
                      /\ EndsWith(raised[r].message, es_request_error(answer).message)
                /\ e.invalid = {}
                /\ "Invalid call_ids: " \notin Range(e.message)
                /\ raised[r].kind = e.kind
                /\ raised[r].invalid = {}
                /\ "Invalid call_ids: " \notin Range(raised[r].message)

\* C12 happens: the validation search for two calls failed with a status
\* other than 403 and the request was rejected with the wrapped error.
C12_Witness ==
    \E r \in Requests :
        /\ es_response[r].answer = "HTTPError"
        /\ Cardinality(Range(call_ids[r])) = 2
        /\ raised[r].kind = "ValidationError"
        /\ Len(raised[r].message) > 1

\* The last operation of the search client ended with an exception.
ClientRaised == es_call.op # "none" /\ es_call.raised # NoExc

\* C13 as claimed: every operation of the search client classifies its
\* failures into two kinds: HTTP 403 raises AccessDeniedError; any other
\* response that is not 2xx, any transport failure and any other exception
\* raised while performing the operation (serialising the body included)
\* raises ElasticsearchFailedRequestError; no other exception escapes.
C13_AsClaimed ==
    ClientRaised =>
        /\ es_call.raised.kind \in {"AccessDeniedError", "ElasticsearchFailedRequestError"}
        /\ es_call.raised.kind = "AccessDeniedError" <=>
              (es_call.body # "unserialisable" /\ es_call.answer = 403)

\* How often step occurs in the sequence s.
Count(s, step) == Cardinality({i \in 1..Len(s) : s[i] = step})

\* The steps of handler() that call the index, the table or the queue after
\* the prologue.
OrchestratorSteps == {"validate_calls_id_es", "job_updater", "get_metadata_from_es",
                      "send_message_batch"}

\* Within one request every such step is attempted at most once.
StepsAttemptedAtMostOnce ==
    \A r \in Requests : \A step \in OrchestratorSteps : Count(trace[r], step) <= 1

\* Every operation of the search client issues exactly one HTTP request, for
\* every body, value of max_retries and answer.
ExactlyOneRequestPerOperation ==
    \A op \in ClientOps :
        \A body \in ClientBodies(op), max_retries \in MaxRetriesValues(op),
           answer \in HttpAnswers :
            es_operation(op, body, max_retries, answer).requests = 1

\* Every operation of the search client issues one HTTP request, or none when
\* json.dumps raises on its body, and max_retries changes nothing in that.
AtMostOneRequestPerOperation ==
    \A op \in ClientOps :
        \A body \in ClientBodies(op), max_retries \in MaxRetriesValues(op),
           answer \in HttpAnswers :
            LET out == es_operation(op, body, max_retries, answer)
            IN  /\ out.requests = IF body = "unserialisable" THEN 0 ELSE 1
                /\ out = es_operation(op, body, 0, answer)

\* C14 as claimed: each operation of the search client issues exactly one
\* HTTP request whether it succeeds or fails, whatever max_retries is, and
\* within one request the validation query, the batch write, the metadata
\* re-query and the batch send are each attempted at most once.
C14_AsClaimed ==
    /\ StepsAttemptedAtMostOnce
    /\ ExactlyOneRequestPerOperation

\* C14, amended: each operation of the search client issues at most one HTTP
\* request, whatever max_retries is: exactly one, whether the request
\* succeeds or fails, when its body can be serialised, and none when
\* json.dumps raises on the body; within one request the validation query,
\* the batch write, the metadata re-query and the batch send are each
\* attempted at most once.
C14_NoRetries ==
    /\ StepsAttemptedAtMostOnce
    /\ AtMostOneRequestPerOperation

\* C14 happens: a request ran the validation query, the batch write and the
\* re-query once each, and its batch send failed and was not tried again.
C14_Witness ==
    \E r \in Requests :
        /\ pc[r] = "returned"
        /\ failed[r] = Fault("send_message_batch", "SQSError")
        /\ \A step \in OrchestratorSteps : Count(trace[r], step) = 1

\* The request reached the validation with a body that is not a list of
\* call-id strings.
MalformedBody(r) == body_shape[r] \notin {"none", "list"}

\* The request has written no job record and sent no message.
NothingWritten(r) ==
    /\ job_id[r] = NoJob
    /\ ~Called(r, "job_updater")
    /\ ~Called(r, "send_message_batch")
    /\ RecordsOf(r) = {}
    /\ MessagesOf(r) = {}

\* C15 as claimed: a request whose parsed body is not a list of call-id
\* strings (an object, a bare string, a number, null) is rejected with status
\* 400, and no job record is written and no message is sent.
C15_AsClaimed ==
    \A r \in Requests :
        MalformedBody(r) =>
            /\ pc[r] \in {"validate", "returned"}
            /\ pc[r] = "returned" => response[r].statusCode = 400
            /\ NothingWritten(r)

\* C15, amended: a request that reaches the call-id validation with a body
\* that is not a list of call-id strings is rejected there, with no job
\* record written and no message sent: with status 403 when the search index
\* answers the validation query with HTTP 403, with status 400 otherwise.
C15_MalformedBodyRejected ==
    \A r \in Requests :
        MalformedBody(r) =>
            /\ pc[r] \in {"validate", "returned"}
            /\ pc[r] = "returned" =>
                  response[r].statusCode = IF Es403AtValidation(r) THEN 403 ELSE 400
            /\ NothingWritten(r)

\* C15 happens: a list with a number whose text is the id of a valid document
\* was searched, found, and rejected with 400.
C15_Witness ==
    \E r \in Requests :
        /\ body_shape[r] = "list_of_numbers"
        /\ es_response[r].answer = "ok"
        /\ Cardinality(es_response[r].hits) = 1
        /\ response[r].statusCode = 400

\* C16: the size of the validator's search request equals the number of
\* elements of the input call-id list, for every list (with repeated
\* identifiers, and the empty one), and the publisher's metadata re-query
\* uses the same size.
C16_SizeIsLengthOfList ==
    \A r \in Requests :
        (body_shape[r] = "list" /\ Called(r, "validate_calls_id_es")) =>
            /\ validation_query(call_ids[r]).size = Len(call_ids[r])
            /\ prepare_es_query(call_ids[r]).size = validation_query(call_ids[r]).size
            /\ Cardinality(es_response[r].hits) <= Len(call_ids[r])

\* C16 happens: a list that names one call twice passed the validation and
\* was queried again by the publisher.
C16_Witness ==
    \E r \in Requests :
        /\ body_shape[r] = "list"
        /\ Len(call_ids[r]) = 2
        /\ Cardinality(Range(call_ids[r])) = 1
        /\ Called(r, "validate_calls_id_es")
        /\ Called(r, "get_metadata_from_es")

\* C17: the batch the job state writer hands to the store for job id J, user
\* U and list L holds one record per element of L, each with jobId J, userId
\* U and status IN_PROGRESS, and all with the same lastUpdate and the same
\* expireAt, the two timestamps computed once for the batch.
C17_BatchSharesTimestamps ==
    \A r \in Requests :
        Called(r, "job_updater") =>
            LET batch == BatchOf(r)
            IN  /\ Len(batch) = Len(call_ids[r])
                /\ \A i \in 1..Len(batch) :
                      /\ batch[i].callId = call_ids[r][i]
                      /\ batch[i].jobId = job_id[r]
                      /\ batch[i].userId = user_email(r)
                      /\ batch[i].status = "IN_PROGRESS"
                      /\ batch[i].lastUpdate = epoch[r].epoch_time
                      /\ batch[i].expireAt = epoch[r].epoch_ttl
                /\ RecordsOf(r) \subseteq Range(batch)
                /\ \A t \in RecordsOf(r), u \in RecordsOf(r) :
                      t.lastUpdate = u.lastUpdate /\ t.expireAt = u.expireAt

\* C17 happens: a batch of two records was written while the clock went on
\* between the reading for lastUpdate and the reading for expireAt.
C17_Witness ==
    \E r \in Requests :
        /\ Called(r, "job_updater")
        /\ Cardinality(RecordsOf(r)) = 2
        /\ epoch[r].epoch_ttl # create_epoch_time_to_live(epoch[r].epoch_time, days_to_expire)

\* C18: over any interleaving of requests a job record, once in the table,
\* stays there with the fields it has, and a record that is added has a
\* (jobId, callId) key no record had before: each key is written once, the
\* set of job records only grows.
C18_RecordsOnlyAdded ==
    [][/\ table \subseteq table'
       /\ \A t \in table' \ table : \A u \in table : Key(u) # Key(t)]_vars

\* C18 happens: two requests wrote their job records for the same call, one
\* after the other, and both records are in the table.
C18_Witness ==
    \E t \in table, u \in table :
        /\ t.callId = u.callId
        /\ t.userId # u.userId
        /\ Called("A", "job_updater")
        /\ Called("B", "job_updater")

\* The re-query of the publisher returned a record that does not have the
\* CallMetadata shape.
InvalidRecordReturned(r) == \E d \in call_metadata_es_list[r] : ~d.wellformed

\* C19: when a record returned by the publisher's re-query is structurally
\* invalid against CallMetadata, the publish aborts with an error and no
\* message is sent for the request, for its valid records either.
C19_InvalidRecordAbortsPublish ==
    \A r \in Requests :
        InvalidRecordReturned(r) =>
            /\ pc[r] = "returned"
            /\ raised[r] # NoExc
            /\ response[r].statusCode >= 400
            /\ ~Called(r, "send_message_batch")
            /\ MessagesOf(r) = {}

\* C19 happens: the re-query returned one valid and one invalid record.
C19_Witness ==
    \E r \in Requests :
        /\ InvalidRecordReturned(r)
        /\ \E d \in call_metadata_es_list[r] : d.wellformed
        /\ pc[r] = "returned"

\* What the index holds for the document with identifier c.
Indexed(c) == es_source(c, index[c])

\* The message was built for a hit of the request: sid is the document's
\* identifier, wav_url is made of the environment's bucket and prefix and the
\* document's filename_prefix, the job fields are those of the request.
BuiltForHitOf(m, r) ==
    /\ Called(r, "send_message_batch")
    /\ m.sid \in CallIds \cap Range(call_ids[r])
    /\ m.wav_url = <<"s3://", AUDIO_SOURCE_BUCKET, "/", AUDIO_SOURCE_PREFIX, "/",
                     Indexed(m.sid).filename_prefix, ".wav">>
    /\ m.on_request_job_id = job_id[r]
    /\ m.on_request_job_user = user_email(r)
    /\ m.filename_prefix = Indexed(m.sid).filename_prefix
    /\ m.agent_email = Indexed(m.sid).agent_email

\* C20 as claimed: every message has the sid, wav_url and job fields above,
\* whatever sid and wav_url the indexed record carries, and every other
\* indexed field equal to its indexed value.
C20_AsClaimed ==
    \A m \in queue :
        \E r \in Requests :
            /\ BuiltForHitOf(m, r)
            /\ m.duration = Indexed(m.sid).duration

\* C20, amended: every message has the sid, wav_url and job fields above,
\* whatever sid and wav_url the indexed record carries, and every other field
\* of the hit with its indexed value as CallMetadata coerces it: the value
\* itself for a field of type str, the number for an int field that was
\* indexed as a number or as the text of one.
C20_MessageBuiltFromHit ==
    \A m \in queue :
        \E r \in Requests :
            /\ BuiltForHitOf(m, r)
            /\ m.duration = JsonInt(Indexed(m.sid).duration.value)

\* C20 happens: a message was sent for a document that carries a sid and a
\* wav_url of its own and a duration indexed as text.
C20_Witness ==
    \E m \in queue :
        /\ Indexed(m.sid).duration.type = "str"
        /\ Indexed(m.sid).sid # m.sid
        /\ Indexed(m.sid).wav_url # m.wav_url
        /\ m.duration.type = "int"


-----------------------------------------------------------------------------
(* The decorator *)

\* C21 as claimed: every non-success response of a handler wrapped in
\* lambda_handler, for a body that is not JSON as for a handler that raised,
\* has a JSON body with an errorMessage field.
C21_AsClaimed ==
    (/\ decorated.calls > 0
     /\ decorated.out.returned
     /\ ~decorated.called \/ decorated.outcome.kind = "raises")
        => \E p \in json_loads(decorated.out.body) : p[1] = "errorMessage"

\* C22: the response to a raised exception does not depend on the exception's
\* message when its status is 500; a response with status 500 to an exception of the handler carries the
\* fixed generic errorMessage and nothing of the exception's message, whether
\* 500 comes from an entry of error_status or from the default; with every
\* other status the errorMessage is the exception's message.
C22_InternalErrorsAreGeneric ==
    /\ \A error_status \in ErrorStatusArgs :
          \A o1 \in HandlerOutcomes, o2 \in HandlerOutcomes :
              (/\ o1.kind = "raises"
               /\ o2.kind = "raises"
               /\ o1.cls = o2.cls
               /\ wrapped(error_status, o1).statusCode = 500)
                  => wrapped(error_status, o1) = wrapped(error_status, o2)
    /\ (decorated.called /\ decorated.outcome.kind = "raises") =>
          /\ decorated.out.returned
          /\ json_loads(decorated.out.body) =
                {<<"errorMessage", IF decorated.out.statusCode = 500
                                   THEN GenericErrorMessage
                                   ELSE decorated.outcome.message>>}

\* A FeedbackError that an entry of error_status maps to 500 was answered.
C22_Witness ==
    /\ decorated.called
    /\ decorated.outcome.kind = "raises"
    /\ decorated.outcome.cls = "FeedbackError"
    /\ decorated.out.statusCode = 500
    /\ "FeedbackError" \in DOMAIN dict(decorated.error_status)
    /\ json_loads(decorated.out.body) = {<<"errorMessage", GenericErrorMessage>>}

-----------------------------------------------------------------------------
(* The sessions of the search clients *)

\* C23 as claimed: the authentication headers attached to the session of one
\* ElasticSearchV2 instance are never among the session headers of another
\* instance constructed with other credentials or with none.
C23_AsClaimed ==
    \A i \in DOMAIN instances, j \in DOMAIN instances :
        (i # j /\ instances[i].auth.type = "dict" /\ instances[j].auth # instances[i].auth)
            => \A h \in DOMAIN instances[i].auth.headers :
                  ~(/\ h \in DOMAIN ES_HEADERS[instances[j].module]
                    /\ ES_HEADERS[instances[j].module][h] = instances[i].auth.headers[h])

-----------------------------------------------------------------------------
(* The feedback handlers *)

\* C24 as claimed: when the question object of the given questionId is not in
\* the object store (the store answered the fetch and holds no such object),
\* the feedback handler fails with a QuestionIdError, which the decorated
\* handler answers with 404, and saves nothing.
C24_AsClaimed ==
    (/\ feedback.calls > 0
     /\ feedback.question_id # NoQuestionId
     /\ feedback.get_answer = "ok"
     /\ question_s3_key(feedback.version, feedback.question_id)
            \notin DOMAIN feedback.before) =>
        /\ feedback.raised.cls = "QuestionIdError"
        /\ feedback.version = "uuid_keyed" => feedback.out.statusCode = 404
        /\ bucket = feedback.before

\* C25 as claimed: a request with a missing questionId, an unknown question
\* or a helpful value that is not a boolean ends in an error and leaves the
\* object store as it was.
C25_AsClaimed ==
    (/\ feedback.calls > 0
     /\ \/ feedback.question_id = NoQuestionId
        \/ /\ feedback.get_answer = "ok"
           /\ question_s3_key(feedback.version, feedback.question_id)
                  \notin DOMAIN feedback.before
        \/ feedback.helpful.type # "bool")
        => /\ feedback.raised # NoRaise
           /\ bucket = feedback.before

\* C26: a successful invocation of the UUID-keyed handler writes exactly one
\* object, under a key {FEEDBACK_PREFIX}/feedback_{uuid}_{questionId}.json the
\* bucket did not hold, whose content is the fetched question data with the
\* validated feedback as its feedback field; the question object and every
\* feedback object saved before are as they were.
C26_OneNewFeedbackObject ==
    (feedback.calls > 0 /\ feedback.version = "uuid_keyed" /\ feedback.raised = NoRaise) =>
        LET key == s3_key(FEEDBACK_PREFIX, feedback.uuids, feedback.question_id)
            fetched == body_as_dict(feedback.before[question_s3_key(feedback.version, feedback.question_id)]).dict
        IN  /\ feedback.saved = {key}
            /\ key \notin DOMAIN feedback.before
            /\ DOMAIN bucket = DOMAIN feedback.before \cup {key}
            /\ bucket[key].data = fetched.data
            /\ bucket[key].feedback = bool_lax(feedback.helpful)
            /\ bucket[key].feedback # {}
            /\ \A k \in DOMAIN feedback.before : bucket[k] = feedback.before[k]

\* A second feedback for a question was saved next to the first one.
C26_Witness ==
    /\ feedback.calls > 0
    /\ feedback.version = "uuid_keyed"
    /\ feedback.raised = NoRaise
    /\ feedback.uuids = 2
    /\ \E k \in DOMAIN feedback.before :
          k.uuid = 1 /\ k.question_id = feedback.question_id
    /\ Cardinality(DOMAIN bucket \ DOMAIN feedback.before) = 1

-----------------------------------------------------------------------------
(* The order of the checks and the writes of one request *)

\* The place of a step in the steps a request has run.
Pos(r, step) == CHOOSE i \in 1..Len(trace[r]) : trace[r][i] = step

\* validate_calls_id_es was called and returned: the search answered and
\* every call id of the request was among its hits.
CallIdsValidated(r) ==
    /\ Called(r, "validate_calls_id_es")
    /\ failed[r].step # "validate_calls_id_es"
    /\ es_response[r].answer = "ok"
    /\ {es_id(x) : x \in Range(call_ids[r])} \subseteq es_response[r].hits

\* C27: a job record of a request is written only after validate_user_access
\* returned true and validate_calls_id_es returned without raising, in that
\* request and in that order; a request whose ValueError from credential
\* extraction, group lookup or client creation was swallowed writes none.
C27_RecordOnlyAfterBothChecks ==
    \A r \in Requests :
        /\ RecordsOf(r) # {} => Called(r, "job_updater")
        /\ Called(r, "job_updater") =>
              /\ Called(r, "validate_user_access")
              /\ failed[r].step \notin Range(TrySteps)
              /\ CallIdsValidated(r)
              /\ Pos(r, "validate_user_access") < Pos(r, "validate_calls_id_es")
              /\ Pos(r, "validate_calls_id_es") < Pos(r, "job_updater")
        /\ (failed[r].step \in Range(TrySteps) /\ failed[r].cause = "ValueError")
              => ~Called(r, "job_updater") /\ RecordsOf(r) = {}

\* The records of a request were written after both checks passed.
C27_Witness ==
    /\ RecordsOf("A") # {}
    /\ Called("A", "validate_user_access")
    /\ failed["A"].step \notin Range(TrySteps)
    /\ CallIdsValidated("A")
    /\ Pos("A", "validate_calls_id_es") < Pos("A", "job_updater")


\* C28: every message a request sent to the queue has an sid of the request's
\* call-id list, and every identifier of that list was a hit of the
\* validation query of the same request, which carries the user's access
\* filter; the re-query of the publisher, which carries none, adds no call.
C28_MessagesOnlyForValidatedCalls ==
    \A r \in Requests :
        \A m \in MessagesOf(r) :
            /\ m.sid \in {es_id(x) : x \in Range(call_ids[r])}
            /\ CallIdsValidated(r)
            /\ m.sid \in es_response[r].hits
            /\ Pos(r, "validate_calls_id_es") < Pos(r, "send_message_batch")

\* A message was sent for a call that was validated under the access filter
\* and that the filter no longer lets through when the message is sent.
C28_Witness ==
    \E m \in MessagesOf("A") :
        /\ m.sid \in es_response["A"].hits
        /\ ~index[m.sid].permitted


\* The calls a run updated in the index.
Patched(run) ==
    {run.writes[i].target : i \in {j \in DOMAIN run.writes :
                                       run.writes[j].op = "update_queue_id"}}

\* C29: an internal call without queue_id is patched only from the first
\* matching inbound call and only with a non-empty queue_id, the index is
\* updated before the metadata file, and a missing metadata file is skipped
\* while the index update stays and the loop goes on. In a step that completes
\* a run: no write holds an empty queue_id, and an index update is one of an
\* internal call without queue_id whose hit is a matching inbound call that
\* holds the value written; a metadata file is saved right after the index
\* update of its call, with the same value; a call without metadata file has
\* its index update and no file written; and a call is left alone only when no
\* inbound call matches it or one that matches has no queue_id.
C29_PatchedFromFirstInboundHit ==
    [][Len(issued') = Len(issued) + 1 =>
          LET writes == issued'[Len(issued')].writes
              candidates == get_internal_calls_with_empty_queue_id(call_details)
              MatchingInbound(c) ==
                  {d \in QueueCalls :
                      /\ call_details[d].present
                      /\ call_details[d].call_direction = "1"
                      /\ call_details[d].original_contact_id
                             = call_details[c].original_contact_id}
          IN  /\ \A i \in DOMAIN writes : writes[i].queue_id # ""
              /\ \A i \in DOMAIN writes :
                    writes[i].op = "update_queue_id" =>
                        /\ writes[i].target \in candidates
                        /\ writes[i].hit \in MatchingInbound(writes[i].target)
                        /\ call_details[writes[i].hit].queue_id = writes[i].queue_id
              /\ \A i \in DOMAIN writes :
                    writes[i].op = "try_save_object" =>
                        /\ i > 1
                        /\ writes[i - 1].op = "update_queue_id"
                        /\ filename_prefix(writes[i - 1].target) = writes[i].target
                        /\ writes[i - 1].queue_id = writes[i].queue_id
              /\ \A c \in Patched(issued'[Len(issued')]) :
                    IF filename_prefix(c) \in DOMAIN extra_metadata
                    THEN extra_metadata'[filename_prefix(c)].queue_id
                             = call_details'[c].queue_id
                    ELSE /\ call_details'[c].queue_id # ""
                         /\ filename_prefix(c) \notin DOMAIN extra_metadata'
                         /\ \A i \in DOMAIN writes :
                               writes[i].op = "try_save_object" =>
                                   writes[i].target # filename_prefix(c)
              /\ \A c \in candidates :
                    c \notin Patched(issued'[Len(issued')]) =>
                        \/ MatchingInbound(c) = {}
                        \/ \E d \in MatchingInbound(c) : call_details[d].queue_id = ""]_vars

\* A run patched a call without metadata file, then went on and patched the
\* next call with its file, while another inbound call of the contact has no
\* queue_id.
C29_Witness ==
    \E r \in DOMAIN issued : \E i \in DOMAIN issued[r].writes :
        /\ i + 2 \in DOMAIN issued[r].writes
        /\ issued[r].writes[i].op = "update_queue_id"
        /\ filename_prefix(issued[r].writes[i].target) \notin DOMAIN extra_metadata
        /\ call_details[issued[r].writes[i].target].queue_id = "sales"
        /\ issued[r].writes[i + 1].op = "update_queue_id"
        /\ issued[r].writes[i + 2].op = "try_save_object"
        /\ extra_metadata[issued[r].writes[i + 2].target].queue_id = "sales"

\* C30: a run that follows another one without a call ingested in between
\* issues no index update and no file write for a call the earlier run
\* patched.
C30_SecondRunSkipsPatchedCalls ==
    \A r \in DOMAIN issued :
        (r > 1 /\ ~issued[r].ingested) =>
            \A c \in Patched(issued[r - 1]) :
                \A i \in DOMAIN issued[r].writes :
                    /\ issued[r].writes[i].op = "update_queue_id"
                           => issued[r].writes[i].target # c
                    /\ issued[r].writes[i].op = "try_save_object"
                           => issued[r].writes[i].target # filename_prefix(c)

\* A second run followed a run that patched a call, nothing ingested in
\* between, and the patched call is still a recent internal call.
C30_Witness ==
    /\ Len(issued) >= 2
    /\ ~issued[2].ingested
    /\ \E c \in Patched(issued[1]) :
          /\ call_details[c].recent
          /\ call_details[c].call_direction = "3"
          /\ call_details[c].queue_id = "sales"
          /\ filename_prefix(c) \in DOMAIN extra_metadata

=============================================================================
